---- MODULE Spec2Model ----
(***************************************************************************)
(* Line grouping, fit/classification loop and Doppler aggregation of the   *)
(* Flux-and-Line-Measurement-Script.                                       *)
(*                                                                         *)
(*   src/emission_lines.py   grouping_emission_lines, doppler_shift_calc,  *)
(*                           on_key, module-level accumulator lists        *)
(*   src/emission_line.py    EmissionLines.grouping_emission_lines         *)
(*                                                                         *)
(* Wavelengths are modelled as integers (the catalog's float values, in    *)
(* Angstrom).  A velocity is an exact rational <<n, d>> in units of the    *)
(* speed of light: astropy's doppler_optical gives c*(obs - rest)/rest.    *)
(***************************************************************************)
EXTENDS Integers, Sequences, FiniteSets, TLC

\* ------------------------------------------------------------------ bounds
MaxRows == 3          \* catalog rows explored by the grouping specification
MaxPipeRows == 3      \* catalog rows explored by the pipeline specification
MaxNoiseKeys == 1     \* key presses delivered with purpose 'Noise Detection'
MaxKeyRows == 2       \* catalog rows explored by the key-handler specification

Ions == {"O_I", "C_IV"}
Wavelengths == {10, 18, 20, 21, 30}
Cutoffs == {0, 18}
PipeWavelengths == {10, 20, 31}
PipeCutoffs == {0, 20}
ObsOffsets == {0, 1}            \* fitted centre minus rest wavelength
KeySet == {"y", "n", "q"}       \* event.key values; "q" stands for any other key

None == <<>>

\* a grating name is the sequence of its characters
Gratings == { <<"G", "1", "4", "0", "L">>, <<"G", "1", "3", "0", "M">>,
              <<"G", "2", "3", "0", "L">>, <<"E", "1", "4", "0", "M">> }
Resolutions == {"HIGH", "LOW", "MEDIUM"}
DefaultSpectrum == [resolution |-> "LOW", grating |-> <<"G", "1", "4", "0", "L">>, step |-> 1]

VARIABLES
    impl,               \* "function": emission_lines.py, "method": emission_line.py
    rest_lam_data,      \* the catalog: rows [Ion, Wavelength] in file order
    min_wavelength,     \* the cutoff
    row,                \* index of the next catalog row of the grouping loop
    ion_groups,         \* the dict being built: <<[ion, groups], ...>> in key order
    pc,                 \* position of the run
    gi,                 \* index of the next group of the doppler loop
    rest_candidates, obs_candidates, emission_line_objs, all_fitted_models,
    emission_line_list, doppler_bool_list, noise_bool_list,
    doppler_log,        \* lines appended to doppler_filename
    doppler_shift,      \* the value doppler_shift_calc returned, or None
    exit_msg,           \* how the run died: sys.exit message or exception
    spectrum,           \* the spectrum's resolution, grating and first wavelength step
    peak_widths,        \* what peak_width_finder returned, or None
    group_rows,         \* history: per created group its ion, number and catalog row
    decided_for         \* history: per Doppler decision the group whose figure was up

vars == <<impl, rest_lam_data, min_wavelength, row, ion_groups, pc, gi,
          rest_candidates, obs_candidates, emission_line_objs, all_fitted_models,
          emission_line_list, doppler_bool_list, noise_bool_list,
          doppler_log, doppler_shift, exit_msg,
          spectrum, peak_widths, group_rows, decided_for>>

peakVars == <<spectrum, peak_widths>>
historyVars == <<group_rows, decided_for>>
groupingVars == <<impl, rest_lam_data, min_wavelength, row, ion_groups>>
localVars == <<rest_candidates, obs_candidates, emission_line_objs, all_fitted_models>>
globalVars == <<emission_line_list, doppler_bool_list, noise_bool_list>>
resultVars == <<doppler_log, doppler_shift, exit_msg>>

\* ------------------------------------------------------- python built-ins
Abs(x) == IF x < 0 THEN -x ELSE x

Max(group) == CHOOSE m \in {group[i] : i \in DOMAIN group} :
                  \A i \in DOMAIN group : group[i] <= m

Min(group) == CHOOSE m \in {group[i] : i \in DOMAIN group} :
                  \A i \in DOMAIN group : m <= group[i]

\* ------------------------------------------------------- the dict ion_groups
DictKeys(d) == {d[i].ion : i \in DOMAIN d}

DictIndex(d, ion) == CHOOSE i \in DOMAIN d : d[i].ion = ion

\* --------------------------------------------- grouping_emission_lines (free)
is_dropped_strict(wavelength, cutoff) == wavelength <= cutoff

\* line 78: if wavelength < min_wavelength: continue
is_dropped(wavelength, cutoff) == wavelength < cutoff

close_to_min(group, wavelength) == Abs(Min(group) - wavelength) <= 10

close_to_first(group, wavelength) == Abs(group[1] - wavelength) <= 10

close_strict(group, wavelength) == Abs(Max(group) - wavelength) < 10

\* line 89: abs(max(group) - wavelength) <= tolerance, tolerance = 10. (line 68)
is_close(group, wavelength) ==
    LET tolerance == 10 IN Abs(Max(group) - wavelength) <= tolerance

\* the loop without its break: every close group takes the wavelength
RECURSIVE scan_groups_no_break(_, _, _)
scan_groups_no_break(groups, wavelength, i) ==
    IF i > Len(groups)
    THEN [groups |-> groups, close_group_found |-> FALSE]
    ELSE LET later == scan_groups_no_break(groups, wavelength, i + 1)
         IN  IF Abs(Max(groups[i]) - wavelength) <= 10
             THEN [groups |-> [later.groups EXCEPT ![i] = Append(@, wavelength)],
                   close_group_found |-> TRUE]
             ELSE later

\* lines 86-92: the for loop over ion_groups[ion], from group i on
RECURSIVE scan_groups(_, _, _)
scan_groups(groups, wavelength, i) ==
    IF i > Len(groups)
    THEN [groups |-> groups, close_group_found |-> FALSE]
    ELSE IF is_close(groups[i], wavelength)
         THEN [groups |-> [groups EXCEPT ![i] = Append(@, wavelength)],
               close_group_found |-> TRUE]
         ELSE scan_groups(groups, wavelength, i + 1)

\* lines 74-96: one iteration of the loop over the catalog rows
grouping_iteration(d, r, cutoff) ==
    LET ion == r.Ion
        wavelength == r.Wavelength
    IN  IF is_dropped(wavelength, cutoff) THEN d
        ELSE IF ion \notin DictKeys(d)
        THEN Append(d, [ion |-> ion, groups |-> << <<wavelength>> >>])
        ELSE LET k == DictIndex(d, ion)
                 s == scan_groups(d[k].groups, wavelength, 1)
             IN  IF s.close_group_found
                 THEN [d EXCEPT ![k].groups = s.groups]
                 ELSE [d EXCEPT ![k].groups = Append(@, <<wavelength>>)]

\* ------------------------------ EmissionLines.grouping_emission_lines (method)
\* line 32: if wavelength < self.spectrum.min_wavelength: continue
m_is_dropped(wavelength, cutoff) == wavelength < cutoff

\* line 45: abs(max(group) - wavelength) <= tolerance, tolerance = 10. (line 22)
m_is_close(group, wavelength) ==
    LET tolerance == 10 IN Abs(Max(group) - wavelength) <= tolerance

\* lines 41-48
RECURSIVE m_scan_groups(_, _, _)
m_scan_groups(groups, wavelength, i) ==
    IF i > Len(groups)
    THEN [groups |-> groups, close_group_found |-> FALSE]
    ELSE IF m_is_close(groups[i], wavelength)
         THEN [groups |-> [groups EXCEPT ![i] = Append(@, wavelength)],
               close_group_found |-> TRUE]
         ELSE m_scan_groups(groups, wavelength, i + 1)

\* lines 28-52
m_grouping_iteration(d, r, cutoff) ==
    LET ion == r.Ion
        wavelength == r.Wavelength
    IN  IF m_is_dropped(wavelength, cutoff) THEN d
        ELSE IF ion \notin DictKeys(d)
        THEN Append(d, [ion |-> ion, groups |-> << <<wavelength>> >>])
        ELSE LET k == DictIndex(d, ion)
                 s == m_scan_groups(d[k].groups, wavelength, 1)
             IN  IF s.close_group_found
                 THEN [d EXCEPT ![k].groups = s.groups]
                 ELSE [d EXCEPT ![k].groups = Append(@, <<wavelength>>)]

\* ------------------------------------------------------------ initial states
RowsOver(ws) == [Ion : Ions, Wavelength : ws]

CatalogsOver(ws, n) == UNION {[1..k -> RowsOver(ws)] : k \in 0..n}

InitRest ==
    /\ row = 1
    /\ ion_groups = <<>>
    /\ pc = "grouping"
    /\ gi = 1
    /\ rest_candidates = <<>>
    /\ obs_candidates = <<>>
    /\ emission_line_objs = <<>>
    /\ all_fitted_models = <<>>
    /\ emission_line_list = <<>>
    /\ doppler_bool_list = <<>>
    /\ noise_bool_list = <<>>
    /\ doppler_log = <<>>
    /\ doppler_shift = None
    /\ exit_msg = ""
    /\ peak_widths = None
    /\ group_rows = <<>>
    /\ decided_for = <<>>

InitGrouping ==
    /\ impl \in {"function", "method"}
    /\ rest_lam_data \in CatalogsOver(Wavelengths, MaxRows)
    /\ min_wavelength \in Cutoffs
    /\ spectrum = DefaultSpectrum
    /\ InitRest

\* ------------------------------------------------------------------ actions
RECURSIVE NumGroups(_)
NumGroups(d) == IF d = <<>> THEN 0 ELSE Len(Head(d).groups) + NumGroups(Tail(d))

\* history of lines 83 and 96: the group a row opened, numbered within its ion
record_created(rows, before, after, r, ion) ==
    IF NumGroups(after) > NumGroups(before)
    THEN Append(rows, [ion |-> ion, nth |-> Len(after[DictIndex(after, ion)].groups),
                       row |-> r])
    ELSE rows

pipelineVars == <<pc, gi, rest_candidates, obs_candidates, emission_line_objs,
                  all_fitted_models, emission_line_list, doppler_bool_list,
                  noise_bool_list, doppler_log, doppler_shift, exit_msg>>

\* emission_lines.py lines 73-96, one row
GroupingStep ==
    /\ pc = "grouping"
    /\ impl = "function"
    /\ row <= Len(rest_lam_data)
    /\ ion_groups' = grouping_iteration(ion_groups, rest_lam_data[row], min_wavelength)
    /\ row' = row + 1
    /\ group_rows' = record_created(group_rows, ion_groups, ion_groups', row,
                                    rest_lam_data[row].Ion)
    /\ UNCHANGED <<impl, rest_lam_data, min_wavelength, decided_for>>
    /\ UNCHANGED pipelineVars
    /\ UNCHANGED peakVars

\* emission_line.py lines 27-52, one row
MethodGroupingStep ==
    /\ pc = "grouping"
    /\ impl = "method"
    /\ row <= Len(rest_lam_data)
    /\ ion_groups' = m_grouping_iteration(ion_groups, rest_lam_data[row], min_wavelength)
    /\ row' = row + 1
    /\ group_rows' = record_created(group_rows, ion_groups, ion_groups', row,
                                    rest_lam_data[row].Ion)
    /\ UNCHANGED <<impl, rest_lam_data, min_wavelength, decided_for>>
    /\ UNCHANGED pipelineVars
    /\ UNCHANGED peakVars

\* return ion_groups (emission_lines.py line 98, emission_line.py line 54)
GroupingReturn ==
    /\ pc = "grouping"
    /\ row > Len(rest_lam_data)
    /\ pc' = "grouped"
    /\ UNCHANGED groupingVars
    /\ UNCHANGED peakVars
    /\ UNCHANGED historyVars
    /\ UNCHANGED <<gi>>
    /\ UNCHANGED localVars
    /\ UNCHANGED globalVars
    /\ UNCHANGED resultVars

NextGrouping == GroupingStep \/ MethodGroupingStep \/ GroupingReturn

SpecGrouping == InitGrouping /\ [][NextGrouping]_vars

\* ------------------------------------------------------------ rationals
RECURSIVE GCD(_, _)
GCD(a, b) == IF b = 0 THEN a ELSE GCD(b, a % b)

\* the rational n/d (d > 0) in lowest terms
Rat(n, d) == LET g == GCD(Abs(n), d) IN <<n \div g, d \div g>>

RatAdd(p, q) == Rat(p[1] * q[2] + q[1] * p[2], p[2] * q[2])

RatDivInt(p, k) == Rat(p[1], p[2] * k)

\* sum(values), from python's 0
RECURSIVE RatSum(_)
RatSum(values) == IF values = <<>> THEN <<0, 1>> ELSE RatAdd(Head(values), RatSum(Tail(values)))

\* ------------------------------------------------------- doppler_shift_calc
\* the ions taken last key first
RECURSIVE FlattenGroups_reversed(_)
FlattenGroups_reversed(d) ==
    IF d = <<>> THEN <<>>
    ELSE FlattenGroups_reversed(Tail(d))
         \o [i \in 1..Len(Head(d).groups) |-> [ion |-> Head(d).ion, group |-> Head(d).groups[i]]]

\* lines 114-115: for ion in grouped_lines: for group in grouped_lines[ion]
RECURSIVE FlattenGroups(_)
FlattenGroups(d) ==
    IF d = <<>> THEN <<>>
    ELSE [i \in 1..Len(Head(d).groups) |-> [ion |-> Head(d).ion, group |-> Head(d).groups[i]]]
         \o FlattenGroups(Tail(d))

\* lines 132-140: the record of one group; the mask-dependent fields (flux_mask,
\* blended_bool) and the fields left None are not carried
new_emission_line(g) ==
    [wavelength_group |-> g.group, ion |-> g.ion, fitted_model |-> None]

\* lines 168-178: the observed wavelength per rest wavelength of the group; a
\* one-line group reads fitted_model.x_0, a blend fitted_model[i].x_0
group_obs(group, fitted_model) ==
    IF Len(group) = 1 THEN <<fitted_model[1]>>
    ELSE [i \in 1..Len(group) |-> fitted_model[i]]

\* lines 203-205: u_obs_lam.to(km/s, doppler_optical(u_rest_lam)), in units of c
doppler_optical(rest_wavelength, obs_wavelength) ==
    Rat(obs_wavelength - rest_wavelength, rest_wavelength)

\* lines 202-205
group_doppler(rests, obss) ==
    [j \in 1..Len(rests) |-> doppler_optical(rests[j], obss[j])]

\* sum(x) / len(x) of lines 206 and 207, x not empty
mean(values) == RatDivInt(RatSum(values), Len(values))

\* dv with every peak's velocity appended on its own
RECURSIVE dv_pooled(_, _, _, _)
dv_pooled(bools, rests, obss, i) ==
    IF i > Len(bools) THEN <<>>
    ELSE (IF bools[i] THEN group_doppler(rests[i], obss[i]) ELSE <<>>)
         \o dv_pooled(bools, rests, obss, i + 1)

\* dv with the decisions ignored
RECURSIVE dv_all(_, _, _, _)
dv_all(bools, rests, obss, i) ==
    IF i > Len(bools) THEN <<>>
    ELSE <<mean(group_doppler(rests[i], obss[i]))>> \o dv_all(bools, rests, obss, i + 1)

\* lines 193-206: dv, from decision i on
RECURSIVE dv_list(_, _, _, _)
dv_list(bools, rests, obss, i) ==
    IF i > Len(bools) THEN <<>>
    ELSE (IF bools[i] THEN <<mean(group_doppler(rests[i], obss[i]))>> ELSE <<>>)
         \o dv_list(bools, rests, obss, i + 1)

\* lines 197-199: update_fitted_model on the records of the accepted groups
\* (emission_line_objs holds references into emission_line_list)
RECURSIVE update_accepted(_, _, _, _, _)
update_accepted(records, bools, objs, models, i) ==
    IF i > Len(bools) THEN records
    ELSE update_accepted(
            IF bools[i] THEN [records EXCEPT ![objs[i]].fitted_model = models[i]] ELSE records,
            bools, objs, models, i + 1)

decisions_ok_nonempty_only(bools, rests) ==
    IF Len(bools) = 0 THEN "You didn't click 'y' and 'n' to choose did you?" ELSE ""

\* lines 190-191: the two assertions; "" when both pass, else the message
decisions_ok(bools, rests) ==
    IF ~(Len(bools) > 0) THEN "You didn't click 'y' and 'n' to choose did you?"
    ELSE IF ~(Len(bools) = Len(rests))
         THEN "Did you click out of the figure instead of clicking 'y' or 'n'?"
         ELSE ""

final_mean_or_zero(dv) ==
    IF Len(dv) = 0 THEN [raised |-> "", value |-> <<0, 1>>]
    ELSE [raised |-> "", value |-> mean(dv)]

\* line 207: sum(dv)/len(dv)
final_mean(dv) ==
    IF Len(dv) = 0 THEN [raised |-> "ZeroDivisionError: division by zero", value |-> None]
    ELSE [raised |-> "", value |-> mean(dv)]

on_key_default_reject(key, purpose, noise, doppler) ==
    IF purpose = "Noise Detection"
    THEN [exit |-> "", noise |-> Append(noise, key = "y"), doppler |-> doppler, closed |-> TRUE]
    ELSE [exit |-> "", noise |-> noise, doppler |-> Append(doppler, key = "y"), closed |-> TRUE]

on_key_keeps_figure(key, purpose, noise, doppler) ==
    IF key \notin {"y", "n"}
    THEN [exit |-> "Invalid key input, select 'y' or 'n'",
          noise |-> noise, doppler |-> doppler, closed |-> FALSE]
    ELSE IF purpose = "Noise Detection"
    THEN [exit |-> "", noise |-> Append(noise, key = "y"), doppler |-> doppler, closed |-> FALSE]
    ELSE [exit |-> "", noise |-> noise, doppler |-> Append(doppler, key = "y"), closed |-> FALSE]

\* lines 225-240: on_key(event, purpose) on the two global lists
on_key(key, purpose, noise, doppler) ==
    LET valid_keys == {"y", "n"}
    IN  IF purpose \notin {"Noise Detection", "Doppler Calculation"}
        THEN [exit |-> "Invalid purpose, select 'Noise Detection' or 'Doppler Calculation'",
              noise |-> noise, doppler |-> doppler, closed |-> FALSE]
        ELSE IF key \notin valid_keys
        THEN [exit |-> "Invalid key input, select 'y' or 'n'",
              noise |-> noise, doppler |-> doppler, closed |-> FALSE]
        ELSE IF purpose = "Noise Detection"
        THEN [exit |-> "", noise |-> Append(noise, key = "y"), doppler |-> doppler,
              closed |-> TRUE]
        ELSE [exit |-> "", noise |-> noise, doppler |-> Append(doppler, key = "y"),
              closed |-> TRUE]

Groups == FlattenGroups(ion_groups)

\* the fitted centres x_0 a successful fit can return for a group
FittedModels(group) ==
    {[i \in 1..Len(group) |-> group[i] + off[i]] : off \in [1..Len(group) -> ObsOffsets]}

\* lines 111-112: the call of doppler_shift_calc on the grouped lines
DopplerCall ==
    /\ pc = "grouped"
    /\ impl = "function"
    /\ pc' = "doppler"
    /\ gi' = 1
    /\ rest_candidates' = <<>>
    /\ obs_candidates' = <<>>
    /\ emission_line_objs' = <<>>
    /\ all_fitted_models' = <<>>
    /\ UNCHANGED groupingVars
    /\ UNCHANGED peakVars
    /\ UNCHANGED historyVars
    /\ UNCHANGED globalVars
    /\ UNCHANGED resultVars

\* the failed group's record kept as a candidate (line 153 ahead of the try)
FitFails_keeps_candidate ==
    /\ pc = "doppler"
    /\ gi <= Len(Groups)
    /\ emission_line_list' = Append(emission_line_list, new_emission_line(Groups[gi]))
    /\ emission_line_objs' = Append(emission_line_objs, Len(emission_line_list) + 1)
    /\ gi' = gi + 1
    /\ UNCHANGED <<pc, doppler_bool_list, noise_bool_list>>
    /\ UNCHANGED <<rest_candidates, obs_candidates, all_fitted_models>>
    /\ UNCHANGED groupingVars
    /\ UNCHANGED peakVars
    /\ UNCHANGED historyVars
    /\ UNCHANGED resultVars

\* lines 116-155 when the fitter raises RuntimeError: continue
FitFails ==
    /\ pc = "doppler"
    /\ gi <= Len(Groups)
    /\ emission_line_list' = Append(emission_line_list, new_emission_line(Groups[gi]))
    /\ gi' = gi + 1
    /\ UNCHANGED <<pc, doppler_bool_list, noise_bool_list>>
    /\ UNCHANGED groupingVars
    /\ UNCHANGED peakVars
    /\ UNCHANGED historyVars
    /\ UNCHANGED localVars
    /\ UNCHANGED resultVars

\* lines 116-184 when the fit succeeds: the figure is up and plt.show() blocks
FitSucceeds ==
    /\ pc = "doppler"
    /\ gi <= Len(Groups)
    /\ \E fitted_model \in FittedModels(Groups[gi].group) :
          all_fitted_models' = Append(all_fitted_models, fitted_model)
    /\ emission_line_list' = Append(emission_line_list, new_emission_line(Groups[gi]))
    /\ emission_line_objs' = Append(emission_line_objs, Len(emission_line_list) + 1)
    /\ pc' = "show"
    /\ UNCHANGED <<gi, rest_candidates, obs_candidates, doppler_bool_list, noise_bool_list>>
    /\ UNCHANGED groupingVars
    /\ UNCHANGED peakVars
    /\ UNCHANGED historyVars
    /\ UNCHANGED resultVars

\* line 165 and lines 225-240: a key press on the figure runs
\* on_key(event, 'Doppler Calculation')
DopplerKey(key) ==
    /\ pc = "show"
    /\ LET r == on_key(key, "Doppler Calculation", noise_bool_list, doppler_bool_list)
       IN  /\ noise_bool_list' = r.noise
           /\ doppler_bool_list' = r.doppler
           /\ exit_msg' = r.exit
           /\ pc' = IF r.exit # "" THEN "exit" ELSE IF r.closed THEN "closed" ELSE "show"
           /\ decided_for' = IF r.doppler # doppler_bool_list
                              THEN Append(decided_for, gi) ELSE decided_for
    /\ UNCHANGED <<gi, emission_line_list, doppler_log, doppler_shift>>
    /\ UNCHANGED groupingVars
    /\ UNCHANGED peakVars
    /\ UNCHANGED group_rows
    /\ UNCHANGED localVars

\* line 184: the figure window is closed without a key press
FigureClosed ==
    /\ pc = "show"
    /\ pc' = "closed"
    /\ UNCHANGED gi
    /\ UNCHANGED groupingVars
    /\ UNCHANGED peakVars
    /\ UNCHANGED historyVars
    /\ UNCHANGED localVars
    /\ UNCHANGED globalVars
    /\ UNCHANGED resultVars

\* lines 184-188: plt.show() returns and the group's lists are appended
ShowReturns ==
    /\ pc = "closed"
    /\ rest_candidates' = Append(rest_candidates, Groups[gi].group)
    /\ obs_candidates' = Append(obs_candidates,
            group_obs(Groups[gi].group, all_fitted_models[Len(all_fitted_models)]))
    /\ gi' = gi + 1
    /\ pc' = "doppler"
    /\ UNCHANGED <<emission_line_objs, all_fitted_models>>
    /\ UNCHANGED groupingVars
    /\ UNCHANGED peakVars
    /\ UNCHANGED historyVars
    /\ UNCHANGED globalVars
    /\ UNCHANGED resultVars

\* lines 190-213: the assertions, the aggregation, the log line and the return
Aggregate ==
    /\ pc = "doppler"
    /\ gi > Len(Groups)
    /\ LET failed == decisions_ok(doppler_bool_list, rest_candidates)
           dv == dv_list(doppler_bool_list, rest_candidates, obs_candidates, 1)
           m == final_mean(dv)
       IN  IF failed # ""
           THEN /\ pc' = "error"
                /\ exit_msg' = "AssertionError: " \o failed
                /\ UNCHANGED <<emission_line_list, doppler_log, doppler_shift>>
           ELSE /\ emission_line_list' = update_accepted(emission_line_list,
                       doppler_bool_list, emission_line_objs, all_fitted_models, 1)
                /\ IF m.raised # ""
                   THEN /\ pc' = "error"
                        /\ exit_msg' = m.raised
                        /\ UNCHANGED <<doppler_log, doppler_shift>>
                   ELSE /\ pc' = "done"
                        /\ doppler_log' = Append(doppler_log, m.value)
                        /\ doppler_shift' = m.value
                        /\ UNCHANGED exit_msg
    /\ UNCHANGED <<gi, doppler_bool_list, noise_bool_list>>
    /\ UNCHANGED groupingVars
    /\ UNCHANGED peakVars
    /\ UNCHANGED historyVars
    /\ UNCHANGED localVars

\* lines 225-240: a key press on a later figure whose handler was connected as
\* on_key(event, 'Noise Detection')
NoiseKey(key) ==
    /\ pc = "done"
    /\ Len(noise_bool_list) < MaxNoiseKeys
    /\ LET r == on_key(key, "Noise Detection", noise_bool_list, doppler_bool_list)
       IN  /\ noise_bool_list' = r.noise
           /\ doppler_bool_list' = r.doppler
           /\ exit_msg' = r.exit
           /\ pc' = IF r.exit # "" THEN "exit" ELSE "done"
    /\ UNCHANGED <<gi, emission_line_list, doppler_log, doppler_shift>>
    /\ UNCHANGED groupingVars
    /\ UNCHANGED peakVars
    /\ UNCHANGED historyVars
    /\ UNCHANGED localVars

Init ==
    /\ impl = "function"
    /\ rest_lam_data \in CatalogsOver(PipeWavelengths, MaxPipeRows)
    /\ min_wavelength \in PipeCutoffs
    /\ spectrum = DefaultSpectrum
    /\ InitRest

Next ==
    \/ GroupingStep
    \/ GroupingReturn
    \/ DopplerCall
    \/ FitFails
    \/ FitSucceeds
    \/ \E key \in KeySet : DopplerKey(key)
    \/ FigureClosed
    \/ ShowReturns
    \/ Aggregate

Spec == Init /\ [][Next]_vars

\* the run followed by the figures whose key handler has purpose 'Noise Detection'
InitKeys ==
    /\ impl = "function"
    /\ rest_lam_data \in CatalogsOver(PipeWavelengths, MaxKeyRows)
    /\ min_wavelength \in PipeCutoffs
    /\ spectrum = DefaultSpectrum
    /\ InitRest

NextKeys ==
    \/ Next
    \/ \E key \in KeySet : NoiseKey(key)

SpecKeys == InitKeys /\ [][NextKeys]_vars

\* --------------------------------------------------------- peak_width_finder
\* Widths are in tenths of an Angstrom: 5.0 is 50 and 0.5 is 5.
\* spectrum_data.py line 18: PEAK_WIDTH_LOW_RES = 5.0
PEAK_WIDTH_LOW_RES == 50

\* spectrum_data.py line 19: PEAK_WIDTH_HIGH_RES = 0.5
PEAK_WIDTH_HIGH_RES == 5

\* 'L' in grating
has_L(grating) == \E i \in DOMAIN grating : grating[i] = "L"

\* emission_lines.py lines 41-54; step is wavelength_data[1] - wavelength_data[0]
peak_width_finder(grating, step) ==
    LET peak_width == IF has_L(grating) THEN 50 ELSE 5
        flux_range == 2 * peak_width
        angstroms_to_pixels == step
        peak_width_pixels == peak_width \div angstroms_to_pixels
    IN  [peak_width |-> peak_width, peak_width_pixels |-> peak_width_pixels,
         flux_range |-> flux_range]

\* spectrum_data.py lines 203-212
m_peak_width_finder(resolution, step) ==
    LET peak_width == IF resolution = "HIGH" THEN PEAK_WIDTH_LOW_RES
                      ELSE PEAK_WIDTH_HIGH_RES
        flux_range == 2 * peak_width
        angstroms_to_pixels == step
        peak_width_pixels == peak_width \div angstroms_to_pixels
    IN  [peak_width |-> peak_width, peak_width_pixels |-> peak_width_pixels,
         flux_range |-> flux_range]

Steps == {1, 2, 3, 4, 7}

Spectra == [resolution : Resolutions, grating : Gratings, step : Steps]

InitPeakWidth ==
    /\ impl \in {"function", "method"}
    /\ rest_lam_data = <<>>
    /\ min_wavelength = 0
    /\ spectrum \in Spectra
    /\ InitRest

\* the call of the free function peak_width_finder(grating, wavelength_data)
PeakWidthFinder ==
    /\ impl = "function"
    /\ peak_widths = None
    /\ peak_widths' = peak_width_finder(spectrum.grating, spectrum.step)
    /\ UNCHANGED <<spectrum, group_rows, decided_for>>
    /\ UNCHANGED groupingVars
    /\ UNCHANGED pipelineVars

\* the call of SpectrumData.peak_width_finder()
MethodPeakWidthFinder ==
    /\ impl = "method"
    /\ peak_widths = None
    /\ peak_widths' = m_peak_width_finder(spectrum.resolution, spectrum.step)
    /\ UNCHANGED <<spectrum, group_rows, decided_for>>
    /\ UNCHANGED groupingVars
    /\ UNCHANGED pipelineVars

NextPeakWidth == PeakWidthFinder \/ MethodPeakWidthFinder

SpecPeakWidth == InitPeakWidth /\ [][NextPeakWidth]_vars

\* ------------------------------------------------------------ grouping claims
GroupElems(grp) == {grp[j] : j \in DOMAIN grp}

\* m is the largest element of the non-empty sequence grp
IsMaxOf(m, grp) == m \in GroupElems(grp) /\ \A e \in GroupElems(grp) : e <= m

WithinTen(grp, w) == \E m \in GroupElems(grp) : IsMaxOf(m, grp) /\ m - w <= 10 /\ w - m <= 10

GroupsOf(e) == ion_groups[e].groups

\* one iteration on a kept row, stated on the dict before and after
C1_Step ==
    (pc = "grouping" /\ row' = row + 1 /\ rest_lam_data[row].Wavelength >= min_wavelength) =>
        LET ion == rest_lam_data[row].Ion
            w == rest_lam_data[row].Wavelength
        IN  IF \A e \in DOMAIN ion_groups : ion_groups[e].ion # ion
            THEN ion_groups' = ion_groups \o << [ion |-> ion, groups |-> << <<w>> >>] >>
            ELSE \E k \in DOMAIN ion_groups :
                    /\ ion_groups[k].ion = ion
                    /\ DOMAIN ion_groups' = DOMAIN ion_groups
                    /\ \A e \in DOMAIN ion_groups : e # k => ion_groups'[e] = ion_groups[e]
                    /\ ion_groups'[k].ion = ion
                    /\ LET gs == ion_groups[k].groups
                           hs == ion_groups'[k].groups
                           matching == {i \in DOMAIN gs : WithinTen(gs[i], w)}
                       IN  IF matching = {}
                           THEN hs = gs \o << <<w>> >>
                           ELSE \E first \in matching :
                                   /\ \A i \in matching : first <= i
                                   /\ DOMAIN hs = DOMAIN gs
                                   /\ hs[first] = gs[first] \o <<w>>
                                   /\ \A i \in DOMAIN gs : i # first => hs[i] = gs[i]

\* C1: a kept row of a new ion creates a singleton group; otherwise the wavelength
\* is appended to the first group of its ion (creation order) whose maximum is
\* within 10 (inclusive), whatever lies closer, and only when no group of the ion
\* qualifies does it open a new singleton group; nothing else changes.
C1_FirstMatch == [][C1_Step]_vars

\* the first-match rule put 20 next to 10 (distance exactly 10) although the
\* later group <<21>> is closer
C1_Witness ==
    /\ pc = "grouped"
    /\ \E e \in DOMAIN ion_groups : ion_groups[e].groups = << <<10, 20>>, <<21>> >>

\* C2: in every group, every element after the first lies within 10 of the
\* maximum of the elements before it in that group.
C2_ChainTolerance ==
    \A e \in DOMAIN ion_groups : \A g \in DOMAIN GroupsOf(e) :
        LET grp == GroupsOf(e)[g]
        IN  \A k \in 2..Len(grp) :
                \E m \in {grp[j] : j \in 1..(k - 1)} :
                    /\ \A j \in 1..(k - 1) : grp[j] <= m
                    /\ m - grp[k] <= 10
                    /\ grp[k] - m <= 10

\* a finished, non-ascending group of three whose last two elements are 20 apart
C2_Witness ==
    /\ pc = "grouped"
    /\ \E e \in DOMAIN ion_groups : \E g \in DOMAIN GroupsOf(e) :
          LET grp == GroupsOf(e)[g]
          IN  Len(grp) = 3 /\ grp[2] < grp[1] /\ grp[3] - grp[2] > 10

ProcessedRows == 1..(row - 1)

KeptRows == {i \in ProcessedRows : rest_lam_data[i].Wavelength >= min_wavelength}

RECURSIVE SumLens(_)
SumLens(groups) == IF groups = <<>> THEN 0 ELSE Len(Head(groups)) + SumLens(Tail(groups))

RECURSIVE CountElems(_)
CountElems(d) == IF d = <<>> THEN 0 ELSE SumLens(Head(d).groups) + CountElems(Tail(d))

C3_Inv ==
    /\ \A e \in DOMAIN ion_groups : \A g \in DOMAIN GroupsOf(e) :
          \A j \in DOMAIN GroupsOf(e)[g] : GroupsOf(e)[g][j] >= min_wavelength
    /\ DictKeys(ion_groups) = {rest_lam_data[i].Ion : i \in KeptRows}
    /\ CountElems(ion_groups) = Cardinality(KeptRows)

C3_DropStep ==
    (pc = "grouping" /\ row' = row + 1 /\ rest_lam_data[row].Wavelength < min_wavelength)
        => ion_groups' = ion_groups

\* C3: no group holds a wavelength below the cutoff, the keys are the ions of the
\* kept rows, every kept row (a wavelength equal to the cutoff included) is in a
\* group, and a dropped row leaves the dict as it was.
C3_CutoffFiltering == []C3_Inv /\ [][C3_DropStep]_vars

\* grouping finished with a row below the cutoff dropped and a row equal to the
\* cutoff kept
C3_Witness ==
    /\ pc = "grouped"
    /\ min_wavelength = 18
    /\ \E i \in ProcessedRows : rest_lam_data[i].Wavelength < min_wavelength
    /\ \E e \in DOMAIN ion_groups : \E g \in DOMAIN GroupsOf(e) :
          \E j \in DOMAIN GroupsOf(e)[g] : GroupsOf(e)[g][j] = min_wavelength

\* ------------------------------------------------------------ pipeline claims
AllProcessed == pc = "doppler" /\ gi > Len(Groups)

Candidates == Len(all_fitted_models)

Decisions == Len(doppler_bool_list)

Accepted == {i \in DOMAIN doppler_bool_list : doppler_bool_list[i]}

C4_Inv == doppler_shift # None => (Decisions > 0 /\ Decisions = Candidates)

C4_Step ==
    (AllProcessed /\ (Decisions = 0 \/ Decisions # Candidates))
        => (pc' = "error" /\ doppler_shift' = None /\ doppler_log' = doppler_log)

\* C4: once every group is processed, no decision or a decision count other than
\* the number of fitted groups makes doppler_shift_calc fail without an estimate;
\* an estimate exists only with equal, non-zero counts.
C4_AggregationPrecondition == []C4_Inv /\ [][C4_Step]_vars

\* the run failed on a count mismatch although a group had been accepted
C4_Witness ==
    /\ pc = "error"
    /\ Accepted # {}
    /\ Decisions # Candidates
    /\ doppler_shift = None

C5_Inv == Accepted = {} => (doppler_shift = None /\ doppler_log = <<>>)

C5_Step ==
    (AllProcessed /\ Decisions > 0 /\ Decisions = Candidates /\ Accepted = {})
        => (pc' = "error" /\ exit_msg' # "" /\ doppler_shift' = None
            /\ doppler_log' = doppler_log)

\* C5: with matching counts and every decision a reject the run ends in an error:
\* nothing is returned (no zero either) and nothing is written to the log.
C5_ZeroAcceptedIsFatal == []C5_Inv /\ [][C5_Step]_vars

\* two fitted groups, both rejected, and the run died in the aggregation
C5_Witness ==
    /\ pc = "error"
    /\ Decisions = 2
    /\ Candidates = 2
    /\ Accepted = {}
    /\ doppler_log = <<>>

RECURSIVE Product(_)
Product(xs) == IF xs = <<>> THEN 1 ELSE Head(xs) * Product(Tail(xs))

RECURSIVE SumOver(_, _)
SumOver(f, n) == IF n = 0 THEN 0 ELSE f[n] + SumOver(f, n - 1)

\* the velocity of fitted group i is VelNum(i) / VelDen(i), in units of c
VelDen(i) == Product(rest_candidates[i]) * Len(rest_candidates[i])

VelNum(i) ==
    LET r == rest_candidates[i]
        o == obs_candidates[i]
    IN  SumOver([j \in 1..Len(r) |-> (o[j] - r[j]) * (Product(r) \div r[j])], Len(r))

AcceptedDen == Product([i \in DOMAIN doppler_bool_list |->
                            IF doppler_bool_list[i] THEN VelDen(i) ELSE 1])

AcceptedNum ==
    SumOver([i \in DOMAIN doppler_bool_list |->
                IF doppler_bool_list[i] THEN VelNum(i) * (AcceptedDen \div VelDen(i)) ELSE 0],
            Decisions)

\* C6: the returned shift is the mean, over the accepted groups only, of each
\* group's mean of (obs - rest)/rest (times c): n/d = AcceptedNum / (AcceptedDen * #accepted).
C6_MeanOfAcceptedGroupMeans ==
    doppler_shift # None =>
        /\ Accepted # {}
        /\ doppler_shift[1] * (AcceptedDen * Cardinality(Accepted))
              = doppler_shift[2] * AcceptedNum

\* a blend of two lines and a single line, both accepted, where the pooled mean
\* over the three peaks differs from the mean of the two group means
C6_Witness ==
    /\ pc = "done"
    /\ Accepted = {1, 2}
    /\ Len(rest_candidates[1]) # Len(rest_candidates[2])
    /\ doppler_shift # mean(dv_pooled(doppler_bool_list, rest_candidates, obs_candidates, 1))

AcceptedAtRest == \A i \in Accepted : obs_candidates[i] = rest_candidates[i]

C7_Inv == (doppler_shift # None /\ AcceptedAtRest) => doppler_shift = <<0, 1>>

C7_Step ==
    (AllProcessed /\ Decisions = Candidates /\ Accepted # {} /\ AcceptedAtRest)
        => (pc' = "done" /\ doppler_shift' = <<0, 1>>)

\* C7: when every accepted group was observed at its rest wavelengths (and one is
\* accepted) the shift is exactly zero, whatever the rejected groups hold.
C7_DopplerZero == []C7_Inv /\ [][C7_Step]_vars

\* a zero shift returned although a rejected group was observed off its rest line
C7_Witness ==
    /\ pc = "done"
    /\ doppler_shift = <<0, 1>>
    /\ \E i \in DOMAIN doppler_bool_list :
          ~doppler_bool_list[i] /\ obs_candidates[i] # rest_candidates[i]

C8_Step ==
    /\ pc # "exit"
    /\ \A key \in KeySet :
          /\ DopplerKey(key) =>
                IF key \in {"y", "n"}
                THEN /\ doppler_bool_list' = doppler_bool_list \o <<key = "y">>
                     /\ noise_bool_list' = noise_bool_list
                     /\ pc' # "exit"
                ELSE /\ pc' = "exit"
                     /\ doppler_bool_list' = doppler_bool_list
                     /\ noise_bool_list' = noise_bool_list
          /\ NoiseKey(key) =>
                IF key \in {"y", "n"}
                THEN /\ noise_bool_list' = noise_bool_list \o <<key = "y">>
                     /\ doppler_bool_list' = doppler_bool_list
                     /\ pc' # "exit"
                ELSE /\ pc' = "exit"
                     /\ doppler_bool_list' = doppler_bool_list
                     /\ noise_bool_list' = noise_bool_list

\* C8: a key other than 'y' or 'n' ends the run on the spot with no decision
\* appended, and nothing happens after the exit; 'y' appends True and 'n' False
\* to the list of the handler's purpose and leaves the other list alone.
C8_InvalidKeyIsFatal == [][C8_Step]_vars

\* an invalid key on the first figure killed the run with a group still to fit
C8_Witness ==
    /\ pc = "exit"
    /\ exit_msg = "Invalid key input, select 'y' or 'n'"
    /\ gi < Len(Groups)
    /\ doppler_bool_list = <<>>
    /\ doppler_log = <<>>

\* C9: a record sits in the emission-line accumulator exactly for the groups whose
\* fit succeeded; a failed fit leaves none.
C9_RecordsOnlyForFittedGroups ==
    /\ Len(emission_line_list) = Candidates
    /\ Len(emission_line_objs) = Candidates

\* C10 as claimed: whenever the loop is about to take the next group, every
\* fitted group so far has exactly one decision.
C10_ExactlyOneDecisionPerFit == pc = "doppler" => Decisions = Candidates

C10_Inv ==
    /\ Decisions <= Candidates
    /\ pc = "show" => Decisions < Candidates

C10_Step ==
    /\ doppler_bool_list' # doppler_bool_list =>
          /\ pc = "show"
          /\ pc' = "closed"
          /\ Len(doppler_bool_list') = Decisions + 1
    /\ (pc' = "show" /\ pc # "show") => Len(all_fitted_models') = Candidates + 1
    /\ all_fitted_models' # all_fitted_models => (pc = "doppler" /\ pc' = "show")

\* C10 amended: between a group's successful fit and the next fit at most one
\* decision is recorded, only by a key press on that group's figure, which closes
\* it; the loop can go on with none.
C10_AtMostOneDecisionPerFit == []C10_Inv /\ [][C10_Step]_vars

\* the loop is back at its top after two fits with a single decision recorded
C10_Witness ==
    /\ pc = "doppler"
    /\ Candidates = 2
    /\ Decisions = 1

\* the messages doppler_shift_calc words itself (its two assertions)
OwnDiagnostics ==
    { "AssertionError: You didn't click 'y' and 'n' to choose did you?",
      "AssertionError: Did you click out of the figure instead of clicking 'y' or 'n'?" }

\* C11: a run that dies in the aggregation ends with a message of the program's
\* own that names the failed condition: the count mismatch and the zero-acceptance
\* case each have theirs, and neither ends in a generic interpreter error.
C11_OwnDiagnosticPerCondition ==
    pc = "error" =>
        /\ exit_msg \in OwnDiagnostics
        /\ (Decisions > 0 /\ Decisions # Candidates) =>
              exit_msg = "AssertionError: Did you click out of the figure instead of clicking 'y' or 'n'?"
        /\ (Decisions = Candidates /\ Decisions > 0 /\ Accepted = {}) =>
              exit_msg # "AssertionError: Did you click out of the figure instead of clicking 'y' or 'n'?"

\* the aggregation loop of lines 193-206 runs or has run: both assertions passed
AggregationRuns ==
    \/ AllProcessed /\ Decisions > 0 /\ Decisions = Len(rest_candidates)
    \/ doppler_shift # None
    \/ pc = "error" /\ exit_msg \notin OwnDiagnostics

\* C12: the k-th entries of rest_candidates, obs_candidates, all_fitted_models and
\* emission_line_objs belong to one and the same fitted group, failed fits
\* notwithstanding, with as many observed as rest wavelengths; and when the
\* aggregation runs the k-th decision was taken on the figure of that k-th group,
\* so an accepted record gets the model of its own group.
C12_ParallelLists ==
    /\ Len(obs_candidates) = Len(rest_candidates)
    /\ Len(emission_line_objs) = Candidates
    /\ Len(rest_candidates) <= Candidates
    /\ \A k \in DOMAIN rest_candidates :
          /\ Len(obs_candidates[k]) = Len(rest_candidates[k])
          /\ emission_line_list[emission_line_objs[k]].wavelength_group = rest_candidates[k]
          /\ Groups[emission_line_objs[k]].group = rest_candidates[k]
          /\ Len(all_fitted_models[k]) = Len(rest_candidates[k])
          /\ \A j \in DOMAIN rest_candidates[k] :
                /\ obs_candidates[k][j] = all_fitted_models[k][j]
                /\ obs_candidates[k][j] - rest_candidates[k][j] \in ObsOffsets
    /\ AggregationRuns =>
          /\ Len(rest_candidates) = Decisions
          /\ Candidates = Decisions
          /\ \A k \in DOMAIN doppler_bool_list : decided_for[k] = emission_line_objs[k]
    /\ doppler_shift # None =>
          \A k \in DOMAIN doppler_bool_list :
              emission_line_list[emission_line_objs[k]].fitted_model =
                  IF doppler_bool_list[k] THEN all_fitted_models[k] ELSE None

\* the first group failed to fit, the second was rejected, the third accepted
C12_Witness ==
    /\ pc = "done"
    /\ emission_line_objs = <<2, 3>>
    /\ doppler_bool_list = <<FALSE, TRUE>>
    /\ Len(emission_line_list) = 3

\* the k-th processed group is the one of the k-th record of emission_line_list:
\* its number within its ion, and the catalog row that opened it
ProcessedNth(k) ==
    Cardinality({j \in 1..k : emission_line_list[j].ion = emission_line_list[k].ion})

ProcessedRow(k) ==
    LET c == CHOOSE c \in DOMAIN group_rows :
                 /\ group_rows[c].ion = emission_line_list[k].ion
                 /\ group_rows[c].nth = ProcessedNth(k)
    IN  group_rows[c].row

FirstRowOfIon(ion) ==
    LET rows == {group_rows[c].row : c \in {x \in DOMAIN group_rows : group_rows[x].ion = ion}}
    IN  CHOOSE r \in rows : \A q \in rows : r <= q

\* every processed record is a group of the dict, each taken once
ProcessedOnce ==
    /\ Len(emission_line_list) <= Len(group_rows)
    /\ \A k \in DOMAIN emission_line_list :
          /\ emission_line_list[k].ion \in DictKeys(ion_groups)
          /\ ProcessedNth(k) <=
                Len(ion_groups[DictIndex(ion_groups, emission_line_list[k].ion)].groups)
          /\ emission_line_list[k].wavelength_group =
                ion_groups[DictIndex(ion_groups, emission_line_list[k].ion)].groups[ProcessedNth(k)]
    /\ (pc = "doppler" /\ gi > Len(Groups)) => Len(emission_line_list) = Len(group_rows)

\* C13 as claimed: of two processed groups the one opened by the earlier catalog
\* row was processed first, and every group is processed once.
C13_CatalogOrder ==
    /\ ProcessedOnce
    /\ \A k, l \in DOMAIN emission_line_list :
          k < l => ProcessedRow(k) < ProcessedRow(l)

\* C13 amended: processing goes ion by ion, the ions by their first kept row, the
\* groups of one ion by the row that opened them; every group is processed once.
C13_IonByIonOrder ==
    /\ ProcessedOnce
    /\ \A k, l \in DOMAIN emission_line_list :
          k < l =>
             IF emission_line_list[k].ion = emission_line_list[l].ion
             THEN ProcessedRow(k) < ProcessedRow(l)
             ELSE FirstRowOfIon(emission_line_list[k].ion)
                      < FirstRowOfIon(emission_line_list[l].ion)

\* three groups processed, the second opened by a later row than the third
C13_Witness ==
    /\ pc = "doppler"
    /\ gi > Len(Groups)
    /\ Len(emission_line_list) = 3
    /\ ProcessedRow(2) > ProcessedRow(3)

\* C14: the log gets one value per run, the returned shift, written only once all
\* groups are processed with matching non-zero counts and an accepted group; a run
\* that dies on a key, on an assertion or on zero accepted groups writes nothing.
C14_OneLogLinePerRun ==
    /\ Len(doppler_log) <= 1
    /\ doppler_log # <<>> =>
          /\ doppler_shift # None
          /\ doppler_log = <<doppler_shift>>
          /\ gi > Len(Groups)
          /\ Decisions > 0
          /\ Decisions = Len(rest_candidates)
          /\ Accepted # {}
    /\ pc = "done" => Len(doppler_log) = 1
    /\ pc = "error" => (doppler_log = <<>> /\ doppler_shift = None)
    /\ (pc = "exit" /\ gi <= Len(Groups)) => (doppler_log = <<>> /\ doppler_shift = None)
    /\ pc \in {"grouping", "grouped", "doppler", "show", "closed"} => doppler_log = <<>>

\* a finished run over three groups with its single log line
C14_Witness ==
    /\ pc = "done"
    /\ Len(Groups) = 3
    /\ Len(doppler_log) = 1
    /\ Cardinality(Accepted) = 1
    /\ Decisions = 2

\* what each implementation keys the resolution on
LowResolution ==
    IF impl = "method" THEN spectrum.resolution = "LOW" ELSE has_L(spectrum.grating)

HighResolution ==
    IF impl = "method" THEN spectrum.resolution = "HIGH" ELSE ~has_L(spectrum.grating)

\* C15: both peak_width_finder implementations return the half-width 5.0 for a
\* low-resolution spectrum and 0.5 for a high-resolution one, and a flux range of
\* twice the half-width.
C15_WidthByResolution ==
    peak_widths # None =>
        /\ LowResolution => peak_widths.peak_width = PEAK_WIDTH_LOW_RES
        /\ HighResolution => peak_widths.peak_width = PEAK_WIDTH_HIGH_RES
        /\ peak_widths.flux_range = 2 * peak_widths.peak_width

\* the wavelengths of the processed rows of an ion that pass the cutoff, in
\* catalog order, from row i on
RECURSIVE KeptOf(_, _)
KeptOf(ion, i) ==
    IF i >= row THEN <<>>
    ELSE (IF rest_lam_data[i].Ion = ion /\ rest_lam_data[i].Wavelength >= min_wavelength
          THEN <<rest_lam_data[i].Wavelength>> ELSE <<>>) \o KeptOf(ion, i + 1)

\* the elements of S that f sends to group g, in the order of S
RECURSIVE Picked(_, _, _, _)
Picked(S, f, g, i) ==
    IF i > Len(S) THEN <<>>
    ELSE (IF f[i] = g THEN <<S[i]>> ELSE <<>>) \o Picked(S, f, g, i + 1)

IonEntries(ion) == {e \in DOMAIN ion_groups : ion_groups[e].ion = ion}

\* C16: per ion, the kept rows split over the ion's groups: each row sits, with
\* its multiplicity, in exactly one group of its own ion, every group lists its
\* rows in catalog order, and no group is empty; an ion has one dict entry if it
\* has a kept row and none otherwise.
C16_Conservation ==
    \A ion \in Ions :
        LET S == KeptOf(ion, 1)
        IN  IF S = <<>> THEN IonEntries(ion) = {}
            ELSE /\ Cardinality(IonEntries(ion)) = 1
                 /\ LET G == ion_groups[CHOOSE e \in IonEntries(ion) : TRUE].groups
                    IN  /\ G # <<>>
                        /\ \A g \in DOMAIN G : G[g] # <<>>
                        /\ \E f \in [DOMAIN S -> DOMAIN G] :
                              \A g \in DOMAIN G : Picked(S, f, g, 1) = G[g]

\* both ions grouped, one of them with a wavelength listed twice in one group
C16_Witness ==
    /\ pc = "grouped"
    /\ Len(ion_groups) = 2
    /\ \E e \in DOMAIN ion_groups : \E g \in DOMAIN GroupsOf(e) :
          Len(GroupsOf(e)[g]) = 2 /\ GroupsOf(e)[g][1] = GroupsOf(e)[g][2]

\* the catalog is wavelength-ascending within each ion
AscendingPerIon ==
    \A i, j \in DOMAIN rest_lam_data :
        (i < j /\ rest_lam_data[i].Ion = rest_lam_data[j].Ion)
            => rest_lam_data[i].Wavelength <= rest_lam_data[j].Wavelength

RECURSIVE Concat(_)
Concat(seqs) == IF seqs = <<>> THEN <<>> ELSE Head(seqs) \o Concat(Tail(seqs))

C17_Inv ==
    AscendingPerIon =>
        \A e \in DOMAIN ion_groups :
            LET G == GroupsOf(e)
            IN  /\ Concat(G) = KeptOf(ion_groups[e].ion, 1)
                /\ \A g \in DOMAIN G : \A j \in 1..(Len(G[g]) - 1) :
                      /\ G[g][j] <= G[g][j + 1]
                      /\ G[g][j + 1] - G[g][j] <= 10
                /\ \A g \in 2..Len(G) : G[g][1] - G[g - 1][Len(G[g - 1])] > 10

C17_Step ==
    (AscendingPerIon /\ pc = "grouping" /\ row' = row + 1) =>
        \A e \in DOMAIN ion_groups : \A g \in 1..(Len(GroupsOf(e)) - 1) :
            ion_groups'[e].groups[g] = GroupsOf(e)[g]

\* C17: for a catalog ascending per ion the groups of an ion are the contiguous
\* runs of its kept wavelengths: ascending, neighbours at most 10 apart, a later
\* group starting more than 10 above the end of the one before, and only the
\* newest group of an ion ever takes a wavelength.
C17_ContiguousRuns == []C17_Inv /\ [][C17_Step]_vars

\* an ascending ion split into the runs 10,18 and 30
C17_Witness ==
    /\ pc = "grouped"
    /\ AscendingPerIon
    /\ \E e \in DOMAIN ion_groups : GroupsOf(e) = << <<10, 18>>, <<30>> >>

====
